---------------------------- MODULE Spec2Model ----------------------------
(***************************************************************************)
(* Model of the CA64 serial client (src/serial_heatmap.py): the CRC, the   *)
(* line splitter and the frame extractor of SerialClient.reader, the       *)
(* connect/close life cycle of the reader threads.                         *)
(*                                                                         *)
(* Bytes are integers 0..255, byte strings are sequences of bytes.  Python *)
(* indices are 0-based: an index i of the source is kept as i and the      *)
(* sequences are read at i + 1.                                            *)
(***************************************************************************)
EXTENDS Integers, Sequences, FiniteSets, TLC

(***************************************************************************)
(* Program constants.                                                      *)
(***************************************************************************)
SOF == <<67, 65, 54, 52>>            \* b"CA64"
FIX_ELEMS == 64
FIX_PAY == FIX_ELEMS * 2
FIX_FRAME == 4 + 2 + 1 + FIX_PAY + 2
CRC_INIT == 65535                    \* crc: int = 0xFFFF
CRC_POLY == 4129                     \* 0x1021
READ_SIZE == 1024                    \* self.ser.read(1024)
HIGH_WATER == 4096                   \* len(self.buf) > 4096
LOW_WATER == 1024                    \* self.buf[-1024:]

NL == 10                             \* b"\n"
Whitespace == {9, 10, 11, 12, 13, 32}
HASH == 35                           \* "#"
GT == 62                             \* ">"

(***************************************************************************)
(* Bounds of the model.                                                    *)
(***************************************************************************)
MaxSplits == 1        \* reads of a chosen size; the later reads take all there is
MaxCrcLen == 3        \* length of the enumerated inputs of crc16_ccitt
MaxThreads == 2       \* reader threads a run of the client may start
MaxCalls == 3         \* connect() and close() calls of a run of the client
NoiseLen == 10000     \* bytes of the marker-free stream
MaxShort == 2         \* 10-byte packets of a scan that also has 22-byte packets
MaxErrors == 1        \* reads that raise on an open port

(***************************************************************************)
(* Byte-string helpers (Python slices and searches).                       *)
(***************************************************************************)
Min(S) == CHOOSE x \in S : \A y \in S : x <= y
MinOf(a, b) == IF a <= b THEN a ELSE b

\* b[lo:hi] for 0 <= lo, hi (clipped as Python clips a slice)
Slice(b, lo, hi) ==
    LET h == MinOf(hi, Len(b))
    IN  IF lo >= h THEN <<>> ELSE SubSeq(b, lo + 1, h)

\* b[lo:]
From(b, lo) == Slice(b, lo, Len(b))

\* b[-n:] for n > 0
Last(b, n) == IF Len(b) <= n THEN b ELSE SubSeq(b, Len(b) - n + 1, Len(b))

\* b.find(SOF): the 0-based index of the first occurrence, -1 when none
FindSOF(b) ==
    LET S == {i \in 1..(Len(b) - 3) :
                 /\ b[i] = SOF[1] /\ b[i + 1] = SOF[2]
                 /\ b[i + 2] = SOF[3] /\ b[i + 3] = SOF[4]}
    IN  IF S = {} THEN -1 ELSE Min(S) - 1

\* b.find(b"\n")
FindNL(b) ==
    LET S == {i \in 1..Len(b) : b[i] = NL}
    IN  IF S = {} THEN -1 ELSE Min(S) - 1

\* lo | (hi << 8) on two bytes
LE16(lo, hi) == lo + hi * 256

(***************************************************************************)
(* crc16_ccitt (lines 26-35).  The register is computed before each        *)
(* recursive step (IF c >= 0), which keeps TLC's evaluation stack shallow. *)
(***************************************************************************)
\* a ^ b on naturals, bit by bit
RECURSIVE XorBits(_, _)
XorBits(a, b) ==
    IF a = 0 THEN b
    ELSE IF b = 0 THEN a
    ELSE (((a % 2) + (b % 2)) % 2) + (2 * XorBits(a \div 2, b \div 2))

\* the same on 4 and on 8 bits, tabulated
Xor4 == [a \in 0..15 |-> [b \in 0..15 |-> XorBits(a, b)]]
Xor8 == [a \in 0..255 |-> [b \in 0..255 |->
            Xor4[a % 16][b % 16] + (16 * Xor4[a \div 16][b \div 16])]]

\* a ^ b, byte by byte
BitXor(a, b) ==
    Xor8[a % 256][b % 256]
    + (256 * Xor8[(a \div 256) % 256][(b \div 256) % 256])
    + (65536 * XorBits(a \div 65536, b \div 65536))

\* the same pass with the polynomial 0x8005 of CRC-16/ARC
CrcShiftWrongPoly(crc) ==
    IF (crc \div 32768) % 2 = 1
    THEN BitXor(crc * 2, 32773) % 65536
    ELSE (crc * 2) % 65536

\* one pass of the inner loop: test bit 15, shift, conditionally xor the polynomial
CrcShift(crc) ==
    IF (crc \div 32768) % 2 = 1
    THEN BitXor(crc * 2, CRC_POLY) % 65536
    ELSE (crc * 2) % 65536

RECURSIVE CrcBits(_, _)
CrcBits(crc, n) ==
    IF n = 0 THEN crc
    ELSE LET c == CrcShift(crc) IN IF c >= 0 THEN CrcBits(c, n - 1) ELSE c

\* the 8 passes of the inner loop, tabulated over the 16-bit registers
CrcBits8 == [c \in 0..65535 |-> CrcBits(c, 8)]

\* crc ^= b << 8, then the 8 shifts
CrcByte(crc, b) == CrcBits8[BitXor(crc, b * 256)]

\* for b in data[lo..hi]: the loop is split in two halves, the second half
\* starting from the register the first half leaves
RECURSIVE CrcFrom(_, _, _, _)
CrcFrom(data, lo, hi, crc) ==
    IF lo > hi THEN crc
    ELSE IF lo = hi THEN CrcByte(crc, data[lo])
    ELSE LET mid == (lo + hi) \div 2
             c == CrcFrom(data, lo, mid, crc)
         IN  IF c >= 0 THEN CrcFrom(data, mid + 1, hi, c) ELSE c

crc16_ccitt(data, crc) == CrcFrom(data, 1, Len(data), crc)

(***************************************************************************)
(* Text of a log line: line.strip().decode(errors="ignore") and the        *)
(* f-string of the statistics line.  A str is the sequence of its code     *)
(* points.  The streams of this model hold no valid multi-byte UTF-8       *)
(* sequence, so decoding drops every byte >= 128.                          *)
(***************************************************************************)
RECURSIVE LStrip(_)
LStrip(b) ==
    IF b # <<>> /\ b[1] \in Whitespace THEN LStrip(Tail(b)) ELSE b

RECURSIVE RStrip(_)
RStrip(b) ==
    IF b # <<>> /\ b[Len(b)] \in Whitespace
    THEN RStrip(SubSeq(b, 1, Len(b) - 1)) ELSE b

Strip(b) == RStrip(LStrip(b))

IsAscii(x) == x < 128
DecodeIgnore(b) == SelectSeq(b, IsAscii)

StartsWith(s, c) == s # <<>> /\ s[1] = c

RECURSIVE Digits(_)
Digits(n) == IF n < 10 THEN <<48 + n>> ELSE Digits(n \div 10) \o <<48 + (n % 10)>>

RECURSIVE PadLeft(_, _)
PadLeft(s, w) == IF Len(s) >= w THEN s ELSE PadLeft(<<32>> \o s, w)

\* f"{n:wd}"
Fmt(n, w) == PadLeft(Digits(n), w)

\* str(list of ints): "[a, b, c]"
RECURSIVE ListItems(_, _)
ListItems(xs, i) ==
    IF i > Len(xs) THEN <<>>
    ELSE (IF i > 1 THEN <<44, 32>> ELSE <<>>) \o Digits(xs[i]) \o ListItems(xs, i + 1)

ListRepr(xs) == <<91>> \o ListItems(xs, 1) \o <<93>>

MinSeq(xs) == Min({xs[k] : k \in 1..Len(xs)})
MaxSeq(xs) == CHOOSE x \in {xs[k] : k \in 1..Len(xs)} : \A k \in 1..Len(xs) : xs[k] <= x

\* "CA seq=" ... (lines 171-175)
StatsPrefix == <<67, 65, 32, 115, 101, 113, 61>>

StatsText(seq, ln, counts) ==
    StatsPrefix \o Fmt(seq, 3)
    \o <<32, 108, 101, 110, 61>> \o Fmt(ln, 3)
    \o <<32, 101, 108, 101, 109, 115, 61>> \o Digits(FIX_ELEMS)
    \o <<32, 109, 105, 110, 61>> \o Fmt(MinSeq(counts), 4)
    \o <<32, 109, 97, 120, 61>> \o Fmt(MaxSeq(counts), 4)
    \o <<32, 102, 105, 114, 115, 116, 56, 61>> \o ListRepr(Slice(counts, 0, 8))

(***************************************************************************)
(* Events: the calls of on_log(s) and on_frame(seq, ok, counts).           *)
(***************************************************************************)
LogEvent(s) == [type |-> "log", text |-> s, seq |-> -1, ok |-> FALSE, counts |-> <<>>]
FrameEvent(seq, ok, counts) ==
    [type |-> "frame", text |-> <<>>, seq |-> seq, ok |-> ok, counts |-> counts]

\* struct.unpack("<" + "H" * FIX_ELEMS, payload)
Unpack(payload) ==
    [k \in 1..FIX_ELEMS |-> LE16(payload[2 * k - 1], payload[2 * k])]

(***************************************************************************)
(* 1) text lines first (lines 126-137).  Result: the accumulator and the   *)
(* log events, in order.                                                   *)
(***************************************************************************)
\* one pass of the while loop of line 126: exit is TRUE when the loop is left
\* (its test fails, or a break)
LineStep(b, logs) ==
    LET k == FindNL(b) IN
    IF k < 0 THEN [buf |-> b, events |-> logs, exit |-> TRUE]
    ELSE
      LET line == Slice(b, 0, k)
          rest == From(b, k + 1)
          s == DecodeIgnore(Strip(line))
      IN  IF FindSOF(line) >= 0
          THEN [buf |-> line \o <<NL>> \o rest, events |-> logs, exit |-> TRUE]
          ELSE IF StartsWith(s, HASH) \/ StartsWith(s, GT)
          THEN [buf |-> rest, events |-> Append(logs, LogEvent(s)), exit |-> FALSE]
          ELSE [buf |-> line \o <<NL>> \o rest, events |-> logs, exit |-> TRUE]

RECURSIVE LineLoop(_, _)
LineLoop(b, logs) ==
    LET n == LineStep(b, logs)
    IN  IF n.exit THEN [buf |-> n.buf, events |-> n.events]
        ELSE LineLoop(n.buf, n.events)

(***************************************************************************)
(* 2) parse fixed 64-element frames (lines 140-175).  r carries buf, the   *)
(* events so far, the frames decoded so far (seq, ok, counts of lines      *)
(* 152-165, whether or not they are handed to on_frame) and due, the       *)
(* value of now - last_stats > 0.1 (line 168).  The iteration is taken to  *)
(* last less than 0.1 s: once a frame is handed over (last_stats = now)    *)
(* the test is false for the rest of the iteration.                        *)
(***************************************************************************)
\* a guard that never truncates
GuardNoTruncate(b) == b

\* a guard that empties the accumulator
GuardClear(b) == IF Len(b) > HIGH_WATER THEN <<>> ELSE b

\* a guard with a threshold one read higher
GuardLate(b) == IF Len(b) > HIGH_WATER + READ_SIZE THEN Last(b, LOW_WATER) ELSE b

\* a guard that keeps the oldest bytes
GuardKeepsHead(b) == IF Len(b) > HIGH_WATER THEN Slice(b, 0, LOW_WATER) ELSE b

\* the no-marker branch (lines 142-145)
Guard(b) == IF Len(b) > HIGH_WATER THEN Last(b, LOW_WATER) ELSE b

\* the length test of line 154
LengthOk(ln) == ln = FIX_PAY

\* a resync that skips the marker, the length and the sequence byte
ResyncSkipHeader(b, i) == From(b, i + 7)

\* a resynchronisation that moves the skipped byte to the end
ResyncRotate(b, i) == From(b, i + 1) \o <<b[i + 1]>>

\* what the resync of line 155 deletes: del self.buf[: i + 1]
Resync(b, i) == From(b, i + 1)

\* an incomplete frame kept without the first byte of its marker
RetainAfterFirst(b, i) == From(b, i + 1)

\* an incomplete frame kept with the bytes before its marker
RetainAll(b, i) == b

\* the incomplete frame of lines 146-148: self.buf[:] = self.buf[i:]
Retain(b, i) == From(b, i)

\* a checksum over the payload alone
CheckPayloadOnly(seq, ln, payload, crc_rx) ==
    crc16_ccitt(payload, CRC_INIT) = crc_rx

\* ok = crc == crc_rx (lines 163-164)
Check(seq, ln, payload, crc_rx) ==
    crc16_ccitt(<<seq, (ln % 256), (ln \div 256)>> \o payload, CRC_INIT) = crc_rx

\* one pass of the while True loop of line 140: next is r after the pass,
\* exit is TRUE when the pass ends with a break
FrameStep(r) ==
    LET b == r.buf
        i == FindSOF(b)
    IN
    IF i < 0 THEN [next |-> [r EXCEPT !.buf = Guard(b)], exit |-> TRUE]
    ELSE IF Len(b) - i < FIX_FRAME
    THEN [next |-> [r EXCEPT !.buf = Retain(b, i)], exit |-> TRUE]
    ELSE
      LET ln == LE16(b[i + 5], b[i + 6])
          seq == b[i + 7]
      IN
      IF ~ LengthOk(ln) THEN [next |-> [r EXCEPT !.buf = Resync(b, i)], exit |-> FALSE]
      ELSE
        LET pos == i + 7
            payload == Slice(b, pos, pos + ln)
            crc_rx == LE16(b[pos + ln + 1], b[pos + ln + 2])
            ok == Check(seq, ln, payload, crc_rx)
            counts == Unpack(payload)
        IN  [next |->
               [buf |-> From(b, pos + ln + 2),
                events |-> IF r.due
                           THEN r.events \o <<FrameEvent(seq, ok, counts),
                                              LogEvent(StatsText(seq, ln, counts))>>
                           ELSE r.events,
                frames |-> Append(r.frames, [seq |-> seq, ok |-> ok, counts |-> counts]),
                due |-> FALSE],
             exit |-> FALSE]

RECURSIVE FrameLoop(_)
FrameLoop(r) ==
    LET n == FrameStep(r)
    IN  IF n.exit THEN n.next ELSE FrameLoop(n.next)

\* an iteration that reports its log lines after its frames
ProcessLogsLast(b, chunk, due) ==
    LET l == LineLoop(b \o chunk, <<>>)
        r == FrameLoop([buf |-> l.buf, events |-> <<>>, frames |-> <<>>, due |-> due])
    IN  [r EXCEPT !.events = r.events \o l.events]

(***************************************************************************)
(* One iteration body of the reader after a non-empty read (lines          *)
(* 123-175): append, split lines once, extract frames.                     *)
(***************************************************************************)
Process(b, chunk, due) ==
    LET l == LineLoop(b \o chunk, <<>>)
    IN  FrameLoop([buf |-> l.buf, events |-> l.events, frames |-> <<>>, due |-> due])

(***************************************************************************)
(* The device side of the wire (spec section 6): a frame is marker,        *)
(* length 128 little-endian, sequence byte, 64 little-endian 16-bit        *)
(* values, CRC-16/CCITT-FALSE little-endian.  The device computes the      *)
(* checksum bit by bit: the register is shifted left once per message bit  *)
(* (most significant bit of each byte first) and the polynomial is xored   *)
(* in when the bit shifted out differs from the message bit.               *)
(***************************************************************************)
RefCrcBit(reg, bit) ==
    LET top == (reg \div 32768) % 2
        sh == (reg * 2) % 65536
    IN  IF top # bit THEN BitXor(sh, 4129) ELSE sh

\* bit k (7 = most significant) of byte x
BitOf(x, k) == (x \div (2 ^ k)) % 2

RECURSIVE RefCrcByte(_, _, _)
RefCrcByte(reg, x, k) ==
    IF k < 0 THEN reg
    ELSE LET c == RefCrcBit(reg, BitOf(x, k)) IN IF c >= 0 THEN RefCrcByte(c, x, k - 1) ELSE c

RECURSIVE RefCrcFrom(_, _, _, _)
RefCrcFrom(data, lo, hi, reg) ==
    IF lo > hi THEN reg
    ELSE IF lo = hi THEN RefCrcByte(reg, data[lo], 7)
    ELSE LET mid == (lo + hi) \div 2
             c == RefCrcFrom(data, lo, mid, reg)
         IN  IF c >= 0 THEN RefCrcFrom(data, mid + 1, hi, c) ELSE c

RefCrc(data) == RefCrcFrom(data, 1, Len(data), 65535)

\* the 128 payload bytes of 64 values
PayBytes(v) ==
    [j \in 1..(2 * Len(v)) |->
        IF j % 2 = 1 THEN v[(j + 1) \div 2] % 256 ELSE v[j \div 2] \div 256]

EncodeFrame(s, v) ==
    LET body == <<s, 128, 0>> \o PayBytes(v)
        c == RefCrc(body)
    IN  SOF \o <<128, 0, s>> \o PayBytes(v) \o <<c % 256, c \div 256>>

\* payload patterns: zeros; a ramp; the marker, a length field of 128 and
\* newlines inside the payload; all ones; the marker and a length field of
\* 128 in the values 38 to 40 (bytes 81 to 86 of the frame)
Payloads ==
    << [k \in 1..64 |-> 0],
       [k \in 1..64 |-> (1000 + (257 * k)) % 65536],
       [k \in 1..64 |-> IF k = 1 THEN 16707          \* "CA"
                        ELSE IF k = 2 THEN 13366     \* "64"
                        ELSE IF k = 3 THEN 128       \* 0x80 0x00
                        ELSE IF k = 4 THEN 2570      \* "\n\n"
                        ELSE 8995 + k],              \* "#" ...
       [k \in 1..64 |-> 65535],
       [k \in 1..64 |-> IF k = 38 THEN 16707
                        ELSE IF k = 39 THEN 13366
                        ELSE IF k = 40 THEN 128
                        ELSE 0] >>

(***************************************************************************)
(* Streams the device sends.  A scenario names a prefix, a frame (sequence *)
(* number s and payload pattern pay; s = -1: no frame) and a suffix; fine  *)
(* says whether the first read may stop after any byte.                    *)
(***************************************************************************)
OK_CONNECT == <<35, 79, 75, 32, 67, 79, 78, 78, 69, 67, 84>>
OK_DISCONNECT == <<35, 79, 75, 32, 68, 73, 83, 67, 79, 78, 78, 69, 67, 84>>
ERR_RX == <<35, 69, 82, 82, 32, 82, 88, 32>>
PORT == <<67, 79, 77, 49>>

\* 200 bytes with the marker at offset 50 and no other occurrence
Blob200 == [i \in 1..200 |-> IF i \in 51..54 THEN SOF[i - 50] ELSE (11 + (37 * i)) % 256]

\* marker-free noise: a constant byte; "CA6" repeated; lines that start with
\* neither "#" nor ">"
Noise(kind) ==
    [i \in 1..NoiseLen |->
        IF kind = 1 THEN 85
        ELSE IF kind = 2 THEN SOF[(i % 3) + 1]
        ELSE IF i % 50 = 0 THEN NL ELSE 120]

PrefixOf(id) ==
    CASE id = "none" -> <<>>
      [] id = "sof" -> SOF
      [] id = "sof2" -> SOF \o SOF
      [] id = "mid" -> <<1, 2>> \o SOF \o <<3>>
      [] id = "sof80" -> SOF \o <<128>>
      [] id = "sofbe" -> SOF \o <<0, 128>>
      [] id = "part" -> <<67, 65, 54>>
      [] id = "line" -> <<35, 120>> \o SOF \o <<1, 1, 10>>
      [] id = "nl" -> <<10>> \o SOF \o <<129, 0, 10, 35>>
      [] id = "blob200" -> Blob200
      \* the marker 50 times over
      [] id = "sofs" -> [i \in 1..200 |-> SOF[((i - 1) % 4) + 1]]
      \* a frame cut short: header with length 128, sequence 9, 50 payload bytes
      [] id = "trunc" -> SOF \o <<128, 0, 9>> \o [i \in 1..50 |-> 0]
      \* a header alone
      [] id = "head" -> SOF \o <<128, 0>>
      \* a whole frame whose checksum is wrong
      [] id = "badcrc" -> SOF \o <<128, 0, 7>> \o [i \in 1..128 |-> 1] \o <<0, 0>>
      [] id = "connect" -> OK_CONNECT \o <<NL>>
      [] id = "text1" -> <<104, 101, 108, 108, 111, 10, 35, 79, 75, 10>>
      [] id = "text2" -> <<35, 97, 10, 62, 98, 10>>
      [] id = "text3" -> <<32, 35, 99, 32, 13, 10, 35, 100>>
      [] id = "text4" -> <<128, 35, 101, 10, 10, 35, 102, 10>>
      \* marker-free bytes up to just under the high-water mark
      [] id = "noisy" -> [i \in 1..(HIGH_WATER - 6) |-> 85]
      \* marker-free bytes, made of the first three bytes of the marker, as
      \* many as the high-water mark and twice as many
      [] id = "flood1" -> [i \in 1..HIGH_WATER |-> SOF[(i % 3) + 1]]
      [] id = "flood2" -> [i \in 1..(2 * HIGH_WATER) |-> SOF[(i % 3) + 1]]
      [] id = "noise1" -> Noise(1)
      [] id = "noise2" -> Noise(2)
      [] id = "noise3" -> Noise(3)

SuffixOf(id) ==
    CASE id = "none" -> <<>>
      [] id = "disconnect" -> OK_DISCONNECT \o <<NL>>
      \* two more frames, back to back
      [] id = "frames" -> EncodeFrame(6, Payloads[5]) \o EncodeFrame(7, Payloads[5])

Scenario(pre, s, pay, post, fine) ==
    [pre |-> pre, s |-> s, pay |-> pay, post |-> post, fine |-> fine]

FalseMarkerPrefixes ==
    {"sof", "sof2", "mid", "sof80", "sofbe", "line", "nl", "blob200", "sofs"}
CorruptPrefixes == {"trunc", "head", "badcrc"}
TextPrefixes == {"text1", "text2", "text3", "text4"}
NoisePrefixes == {"noise1", "noise2", "noise3"}
FloodPrefixes == {"flood1", "flood2"}
LongPrefixes == NoisePrefixes \cup {"noisy"}

Scenarios ==
    {Scenario("none", 0, 1, "none", TRUE), Scenario("none", 10, 3, "none", TRUE),
     Scenario("none", 255, 4, "none", FALSE), Scenario("none", 67, 2, "none", FALSE),
     Scenario("part", 5, 2, "none", FALSE)}
    \cup {Scenario(p, 5, 2, "none", FALSE) : p \in FalseMarkerPrefixes}
    \cup {Scenario(p, 10, 3, "none", FALSE) : p \in {"sof", "line"}}
    \cup {Scenario(p, 5, 2, "none", FALSE) : p \in CorruptPrefixes}
    \cup {Scenario("connect", 1, 2, "disconnect", FALSE),
          Scenario("connect", 10, 3, "disconnect", FALSE),
          Scenario("none", 1, 2, "disconnect", FALSE)}
    \cup {Scenario(p, -1, 1, "none", FALSE) : p \in TextPrefixes \cup NoisePrefixes}
    \cup {Scenario(p, 5, 5, "frames", FALSE) : p \in {"none", "sof", "trunc"}}
    \cup {Scenario("noisy", 5, 2, "none", FALSE)}

\* marker-free noise, then a frame
FloodScenarios ==
    {Scenario(p, 5, 2, "none", FALSE) : p \in FloodPrefixes \cup {"noisy"}}

Stream(x) ==
    PrefixOf(x.pre)
    \o (IF x.s >= 0 THEN EncodeFrame(x.s, Payloads[x.pay]) ELSE <<>>)
    \o SuffixOf(x.post)

(***************************************************************************)
(* State.                                                                  *)
(***************************************************************************)
VARIABLES
    ser,        \* self.ser: "None", or the state of the Serial object: "open", "closed"
    stop,       \* self.stop
    buf,        \* self.buf
    pc,         \* pc[t]: where reader thread t is
    data,       \* data[t]: the local data of thread t
    stats_due,  \* stats_due[t]: time.time() - last_stats > 0.1 in thread t
    wire,       \* the bytes the device has sent and no read has returned yet
    sent,       \* all the bytes the device sends
    chunks,     \* the sizes of the non-empty reads so far
    events,     \* the calls of on_log and on_frame so far, in order
    frames,     \* the frames decoded so far (lines 152-165), in order
    calls,      \* the connect() and close() calls so far
    sc,         \* the scenario
    crc_in,     \* argument of a call of crc16_ccitt
    crc_out,    \* its result, -1 before the call
    cycle,      \* read_scan: the cycle to read next, 16 once the scan is done
    readings,   \* read_scan: readings, indexed from 0
    bufs,       \* read_scan: the packets read_cycle has returned, in order
    writes      \* read_scan: how often each cell of readings was assigned

\* the state of read_scan
scan == <<cycle, readings, bufs, writes>>

\* no scan has begun: readings = [0] * 64 is not yet built
NoScan == cycle = 0 /\ readings = <<>> /\ bufs = <<>> /\ writes = <<>>

vars == <<ser, stop, buf, pc, data, stats_due, wire, sent, chunks, events, frames,
          calls, sc, crc_in, crc_out, scan>>

Threads == 1..MaxThreads

Running(t) == pc[t] \in {"loop", "read", "decode", "except"}

\* the sizes a read may return
CoarseSizes == {2, 6, 100, 150, 1000}

Sizes ==
    LET avail == MinOf(READ_SIZE, Len(wire))
    IN  IF Len(chunks) >= MaxSplits THEN {avail}
        ELSE IF sc.fine /\ chunks = <<>> THEN 1..avail
        ELSE {n \in CoarseSizes : n < avail} \cup {avail}

(***************************************************************************)
(* The reader thread (lines 116-178).                                      *)
(***************************************************************************)
\* while not self.stop and self.ser and self.ser.is_open (line 118)
LoopTest(t) ==
    /\ pc[t] = "loop"
    /\ pc' = [pc EXCEPT ![t] = IF ~ stop /\ ser = "open" THEN "read" ELSE "done"]
    /\ UNCHANGED <<ser, stop, buf, data, stats_due, wire, sent, chunks, events, frames,
                   calls, sc, crc_in, crc_out, scan>>

\* data = self.ser.read(1024) returns n >= 1 bytes (line 120)
ReadChunk(t, n) ==
    /\ pc[t] = "read"
    /\ ser = "open"
    /\ wire # <<>>
    /\ n \in Sizes
    /\ data' = [data EXCEPT ![t] = SubSeq(wire, 1, n)]
    /\ wire' = From(wire, n)
    /\ chunks' = Append(chunks, n)
    /\ pc' = [pc EXCEPT ![t] = "decode"]
    /\ UNCHANGED <<ser, stop, buf, stats_due, sent, events, frames, calls, sc,
                   crc_in, crc_out, scan>>

\* the read times out: if not data: continue (lines 121-122)
ReadTimeout(t) ==
    /\ pc[t] = "read"
    /\ ser = "open"
    /\ pc' = [pc EXCEPT ![t] = "loop"]
    /\ UNCHANGED <<ser, stop, buf, data, stats_due, wire, sent, chunks, events, frames,
                   calls, sc, crc_in, crc_out, scan>>

\* the read raises: the port is closed (line 120 to line 176)
ReadFail(t) ==
    /\ pc[t] = "read"
    /\ ser # "open"
    /\ pc' = [pc EXCEPT ![t] = "except"]
    /\ UNCHANGED <<ser, stop, buf, data, stats_due, wire, sent, chunks, events, frames,
                   calls, sc, crc_in, crc_out, scan>>

\* "#ERR RX ..." log events so far
IsErrEvent(e) == e = LogEvent(ERR_RX)
ErrCount == Len(SelectSeq(events, IsErrEvent))

\* the read raises on an open port, e.g. the device is unplugged (line 120 to
\* line 176)
ReadError(t) ==
    /\ pc[t] = "read"
    /\ ser = "open"
    /\ ErrCount < MaxErrors
    /\ pc' = [pc EXCEPT ![t] = "except"]
    /\ UNCHANGED <<ser, stop, buf, data, stats_due, wire, sent, chunks, events, frames,
                   calls, sc, crc_in, crc_out, scan>>

\* self.buf += data and the two loops (lines 123-175)
Decode(t) ==
    /\ pc[t] = "decode"
    /\ LET r == Process(buf, data[t], stats_due[t])
       IN  /\ buf' = r.buf
           /\ events' = events \o r.events
           /\ frames' = frames \o r.frames
           /\ stats_due' = [stats_due EXCEPT ![t] = r.due]
    /\ data' = [data EXCEPT ![t] = <<>>]
    /\ pc' = [pc EXCEPT ![t] = "loop"]
    /\ UNCHANGED <<ser, stop, wire, sent, chunks, calls, sc, crc_in, crc_out, scan>>

\* a handler after which the thread ends
ExceptFatal(t) ==
    /\ pc[t] = "except"
    /\ events' = Append(events, LogEvent(ERR_RX))
    /\ stats_due' = [stats_due EXCEPT ![t] = TRUE]
    /\ pc' = [pc EXCEPT ![t] = "done"]
    /\ UNCHANGED <<ser, stop, buf, data, wire, sent, chunks, frames,
                   calls, sc, crc_in, crc_out, scan>>

\* except Exception as e: on_log, time.sleep(0.1) (lines 176-178); after the
\* sleep more than 0.1 s have passed since last_stats
Except(t) ==
    /\ pc[t] = "except"
    /\ events' = Append(events, LogEvent(ERR_RX))
    /\ stats_due' = [stats_due EXCEPT ![t] = TRUE]
    /\ pc' = [pc EXCEPT ![t] = "loop"]
    /\ UNCHANGED <<ser, stop, buf, data, wire, sent, chunks, frames,
                   calls, sc, crc_in, crc_out, scan>>

\* more than 0.1 s have passed since last_stats of thread t (lines 167-168)
Elapse(t) ==
    /\ Running(t)
    /\ ~ stats_due[t]
    /\ stats_due' = [stats_due EXCEPT ![t] = TRUE]
    /\ UNCHANGED <<ser, stop, buf, pc, data, wire, sent, chunks, events, frames,
                   calls, sc, crc_in, crc_out, scan>>

(***************************************************************************)
(* connect and close (lines 87-105).                                       *)
(***************************************************************************)
\* serial.Serial(...) succeeds: a new port object, a new thread (lines 89-93)
Connect(t) ==
    /\ calls < MaxCalls
    /\ pc[t] = "none"
    /\ \A u \in Threads : u < t => pc[u] # "none"
    /\ ser' = "open"
    /\ stop' = FALSE
    /\ pc' = [pc EXCEPT ![t] = "loop"]
    /\ stats_due' = [stats_due EXCEPT ![t] = FALSE]
    /\ events' = Append(events, LogEvent(OK_CONNECT \o <<32>> \o PORT))
    /\ calls' = calls + 1
    /\ UNCHANGED <<buf, data, wire, sent, chunks, frames, sc, crc_in, crc_out, scan>>

\* serial.Serial(...) raises: nothing is assigned (lines 94-96)
ConnectFail ==
    /\ calls < MaxCalls
    /\ calls' = calls + 1
    /\ UNCHANGED <<ser, stop, buf, pc, data, stats_due, wire, sent, chunks, events,
                   frames, sc, crc_in, crc_out, scan>>

Close ==
    /\ calls < MaxCalls
    /\ stop' = TRUE
    /\ ser' = IF ser = "None" THEN "None" ELSE "closed"
    /\ events' = Append(events, LogEvent(OK_DISCONNECT))
    /\ calls' = calls + 1
    /\ UNCHANGED <<buf, pc, data, stats_due, wire, sent, chunks, frames, sc,
                   crc_in, crc_out, scan>>

(***************************************************************************)
(* Spec: one reader thread on an open port (the state connect() leaves),   *)
(* fed one of the streams; events lists the callbacks since then.          *)
(***************************************************************************)
Init ==
    /\ sc \in Scenarios
    /\ sent = Stream(sc)
    /\ wire = sent
    /\ ser = "open"
    /\ stop = FALSE
    /\ buf = <<>>
    /\ pc = [t \in Threads |-> IF t = 1 THEN "loop" ELSE "none"]
    /\ data = [t \in Threads |-> <<>>]
    /\ stats_due = [t \in Threads |-> FALSE]
    /\ chunks = <<>>
    /\ events = <<>>
    /\ frames = <<>>
    /\ calls = 1
    /\ crc_in = <<>>
    /\ crc_out = -1
    /\ NoScan

Next ==
    \/ LoopTest(1)
    \/ \E n \in 1..READ_SIZE : ReadChunk(1, n)
    \/ ReadTimeout(1)
    \/ Decode(1)
    \/ Elapse(1)

Spec == Init /\ [][Next]_vars

(***************************************************************************)
(* SpecFlood: the reader thread of Spec on the streams of marker-free      *)
(* noise followed by a frame.                                              *)
(***************************************************************************)
FloodInit ==
    /\ sc \in FloodScenarios
    /\ sent = Stream(sc)
    /\ wire = sent
    /\ ser = "open"
    /\ stop = FALSE
    /\ buf = <<>>
    /\ pc = [t \in Threads |-> IF t = 1 THEN "loop" ELSE "none"]
    /\ data = [t \in Threads |-> <<>>]
    /\ stats_due = [t \in Threads |-> FALSE]
    /\ chunks = <<>>
    /\ events = <<>>
    /\ frames = <<>>
    /\ calls = 1
    /\ crc_in = <<>>
    /\ crc_out = -1
    /\ NoScan

SpecFlood == FloodInit /\ [][Next]_vars

(***************************************************************************)
(* SpecCrc: calls of crc16_ccitt(data) on enumerated byte strings and on   *)
(* the ASCII bytes of 123456789.                                           *)
(***************************************************************************)
CheckInput == <<49, 50, 51, 52, 53, 54, 55, 56, 57>>
CrcBytes == {0, 1, 128, 255}
CrcInputs ==
    UNION {[1..n -> CrcBytes] : n \in 0..MaxCrcLen} \cup {CheckInput}

NoScenario == Scenario("none", -1, 1, "none", FALSE)

CrcInit ==
    /\ crc_in \in CrcInputs
    /\ crc_out = -1
    /\ NoScan
    /\ sc = NoScenario
    /\ sent = <<>>
    /\ wire = <<>>
    /\ ser = "None"
    /\ stop = FALSE
    /\ buf = <<>>
    /\ pc = [t \in Threads |-> "none"]
    /\ data = [t \in Threads |-> <<>>]
    /\ stats_due = [t \in Threads |-> FALSE]
    /\ chunks = <<>>
    /\ events = <<>>
    /\ frames = <<>>
    /\ calls = 0

CrcCall ==
    /\ crc_out = -1
    /\ crc_out' = crc16_ccitt(crc_in, CRC_INIT)
    /\ UNCHANGED <<ser, stop, buf, pc, data, stats_due, wire, sent, chunks, events,
                   frames, calls, sc, crc_in, scan>>

CrcNext == CrcCall

SpecCrc == CrcInit /\ [][CrcNext]_vars

(***************************************************************************)
(* SpecClient: a SerialClient after construction (lines 76-81), its        *)
(* connect() and close() calls and the reader threads they start, on a     *)
(* device that sends two text lines.                                       *)
(***************************************************************************)
ClientScenario == Scenario("text2", -1, 1, "none", FALSE)

ClientInit ==
    /\ sc = ClientScenario
    /\ sent = Stream(sc)
    /\ wire = sent
    /\ ser = "None"
    /\ stop = FALSE
    /\ buf = <<>>
    /\ pc = [t \in Threads |-> "none"]
    /\ data = [t \in Threads |-> <<>>]
    /\ stats_due = [t \in Threads |-> FALSE]
    /\ chunks = <<>>
    /\ events = <<>>
    /\ frames = <<>>
    /\ calls = 0
    /\ crc_in = <<>>
    /\ crc_out = -1
    /\ NoScan

ClientNext ==
    \/ \E t \in Threads : Connect(t)
    \/ ConnectFail
    \/ Close
    \/ \E t \in Threads : LoopTest(t)
    \/ \E t \in Threads : \E n \in 1..READ_SIZE : ReadChunk(t, n)
    \/ \E t \in Threads : ReadTimeout(t)
    \/ \E t \in Threads : ReadFail(t)
    \/ \E t \in Threads : ReadError(t)
    \/ \E t \in Threads : Decode(t)
    \/ \E t \in Threads : Except(t)
    \/ \E t \in Threads : Elapse(t)

SpecClient == ClientInit /\ [][ClientNext]_vars

(***************************************************************************)
(* SpecLoop: one iteration body of the reader, pass by pass.  It starts    *)
(* after self.buf += data (line 123) with the first n bytes of a stream in *)
(* the accumulator (n <= 1024: a first read; more for the marker-free      *)
(* streams, which both loops leave in place up to 4096 bytes), at pc       *)
(* "lines"; each step is one pass of the line loop or of the frame loop.   *)
(***************************************************************************)
Cuts == {3, 4, 6, 7, 58, 100, 136, 137, 138, 150, 200, 1024, 4096, 4097, 5120}

LoopInit ==
    /\ sc \in Scenarios
    /\ sent = Stream(sc)
    /\ \E n \in Cuts \cup {Len(sent)} :
          /\ n <= Len(sent)
          /\ n <= READ_SIZE \/ (sc.pre \in LongPrefixes /\ n <= HIGH_WATER + READ_SIZE)
          /\ chunks = <<n>>
          /\ buf = Slice(sent, 0, n)
          /\ wire = From(sent, n)
    /\ ser = "open"
    /\ stop = FALSE
    /\ pc = [t \in Threads |-> IF t = 1 THEN "lines" ELSE "none"]
    /\ data = [t \in Threads |-> <<>>]
    /\ stats_due \in {[t \in Threads |-> d /\ t = 1] : d \in BOOLEAN}
    /\ events = <<>>
    /\ frames = <<>>
    /\ calls = 1
    /\ crc_in = <<>>
    /\ crc_out = -1
    /\ NoScan

\* one pass of the line loop (lines 126-137)
LineIter(t) ==
    /\ pc[t] = "lines"
    /\ LET n == LineStep(buf, <<>>)
       IN  /\ buf' = n.buf
           /\ events' = events \o n.events
           /\ pc' = [pc EXCEPT ![t] = IF n.exit THEN "frames" ELSE "lines"]
    /\ UNCHANGED <<ser, stop, data, stats_due, wire, sent, chunks, frames, calls, sc,
                   crc_in, crc_out, scan>>

\* one pass of the frame loop (lines 140-175)
FrameIter(t) ==
    /\ pc[t] = "frames"
    /\ LET n == FrameStep([buf |-> buf, events |-> <<>>, frames |-> <<>>,
                           due |-> stats_due[t]])
       IN  /\ buf' = n.next.buf
           /\ events' = events \o n.next.events
           /\ frames' = frames \o n.next.frames
           /\ stats_due' = [stats_due EXCEPT ![t] = n.next.due]
           /\ pc' = [pc EXCEPT ![t] = IF n.exit THEN "loop" ELSE "frames"]
    /\ UNCHANGED <<ser, stop, data, wire, sent, chunks, calls, sc, crc_in, crc_out, scan>>

LoopNext == LineIter(1) \/ FrameIter(1)

SpecLoop == LoopInit /\ [][LoopNext]_vars

(***************************************************************************)
(* SpecRetry: one reader thread on an open port (the state connect()       *)
(* leaves) whose reads may raise, and close() calls.                       *)
(***************************************************************************)
RetryInit ==
    /\ sc \in {Scenario(p, -1, 1, "none", FALSE) : p \in {"text1", "text2"}}
    /\ sent = Stream(sc)
    /\ wire = sent
    /\ ser = "open"
    /\ stop = FALSE
    /\ buf = <<>>
    /\ pc = [t \in Threads |-> IF t = 1 THEN "loop" ELSE "none"]
    /\ data = [t \in Threads |-> <<>>]
    /\ stats_due = [t \in Threads |-> FALSE]
    /\ chunks = <<>>
    /\ events = <<>>
    /\ frames = <<>>
    /\ calls = 1
    /\ crc_in = <<>>
    /\ crc_out = -1
    /\ NoScan

RetryNext ==
    \/ LoopTest(1)
    \/ \E n \in 1..READ_SIZE : ReadChunk(1, n)
    \/ ReadTimeout(1)
    \/ ReadFail(1)
    \/ ReadError(1)
    \/ Decode(1)
    \/ Except(1)
    \/ Elapse(1)
    \/ Close

SpecRetry == RetryInit /\ [][RetryNext]_vars

\* Scheduling: a started thread that has not terminated always has a step
\* to take (the loop test, a read that returns, times out or raises, the
\* decoding, the handler), each of them moves pc[t], and the interpreter
\* runs every such thread again and again.
PcValues == {"none", "loop", "read", "decode", "except", "done"}

Advance(t) ==
    /\ Running(t)
    /\ \E p \in PcValues \ {pc[t]} : pc' = [pc EXCEPT ![t] = p]

FairSpecClient ==
    SpecClient /\ \A t \in Threads : WF_pc(Advance(t))

\* the reader has processed every byte the device sent
Idle == wire = <<>> /\ pc[1] \in {"loop", "read"}

(***************************************************************************)
(* Vocabulary of the claims.                                               *)
(***************************************************************************)
IsFrameEvent(e) == e.type = "frame"
IsLogEvent(e) == e.type = "log"

\* the on_frame calls so far
FrameEvents == SelectSeq(events, IsFrameEvent)

\* the on_frame call that hands frame f over
Delivered(f) == FrameEvent(f.seq, f.ok, f.counts)

\* the frame of the scenario, decoded as sent
TheFrame == [seq |-> sc.s, ok |-> TRUE, counts |-> Payloads[sc.pay]]

\* the scenario is one encoded frame and nothing else
LoneFrame == sc.pre = "none" /\ sc.post = "none" /\ sc.s >= 0

\* the marker is at 0-based index i of b
MarkerAt(b, i) ==
    /\ i + 4 <= Len(b)
    /\ b[i + 1] = SOF[1] /\ b[i + 2] = SOF[2] /\ b[i + 3] = SOF[3] /\ b[i + 4] = SOF[4]

\* pre holds the marker, and no marker that starts in pre is followed by a
\* length field of 128 once a frame follows pre
FalseMarkersOnly(pre) ==
    LET b == pre \o SOF \o <<128, 0>>
    IN  /\ FindSOF(pre) >= 0
        /\ \A i \in 0..(Len(pre) - 1) :
              MarkerAt(b, i) => LE16(b[i + 5], b[i + 6]) # FIX_PAY

\* a frame follows a prefix whose markers are all false ones
ResyncScenario == sc.s >= 0 /\ sc.post = "none" /\ FalseMarkersOnly(PrefixOf(sc.pre))

\* the bytes not yet examined by the frame extractor, oldest first
Pending == buf \o data[1] \o wire

\* the encoded frame of the scenario and what follows it, as sent
FrameAsSent == From(sent, Len(PrefixOf(sc.pre)))

(***************************************************************************)
(* C1.  Every well-formed frame the reader finds (marker, length 128, all  *)
(* 137 bytes present) is handed to on_frame exactly once, whatever its     *)
(* checksum: the on_frame calls are the decoded frames, in order.          *)
(***************************************************************************)
C1_EveryFrameDelivered ==
    /\ Len(FrameEvents) = Len(frames)
    /\ \A k \in 1..Len(frames) : FrameEvents[k] = Delivered(frames[k])

(***************************************************************************)
(* C2.  Round trip: once the reader has processed one encoded frame (s, v) *)
(* fed on an empty accumulator, it has yielded one frame, with validity    *)
(* true, sequence s and values v.                                          *)
(***************************************************************************)
C2_RoundTrip ==
    (Idle /\ LoneFrame) => FrameEvents = <<Delivered(TheFrame)>>

(***************************************************************************)
(* C3.  Resync correctness: a blob that holds the marker but no real       *)
(* header, followed by one valid frame, yields exactly one frame event,    *)
(* the real frame with validity true.                                      *)
(***************************************************************************)
C3_ResyncOneFrame ==
    (Idle /\ ResyncScenario) => FrameEvents = <<Delivered(TheFrame)>>

NoiseScenario == sc.pre \in NoisePrefixes

C6_AtMostLowWater ==
    (Idle /\ NoiseScenario) => Len(buf) <= LOW_WATER

(***************************************************************************)
(* C6, amended.  After 10,000 marker-free bytes, fed in chunks, the        *)
(* accumulator holds at most 4096 bytes (the guard truncates only above    *)
(* 4096 bytes, to the last 1024), and they are the last bytes sent.        *)
(***************************************************************************)
C6_AtMostHighWater ==
    (Idle /\ NoiseScenario) =>
        /\ Len(buf) <= HIGH_WATER
        /\ buf = Last(sent, Len(buf))

C6_Witness ==
    /\ Idle /\ NoiseScenario
    /\ Len(sent) = NoiseLen
    /\ Len(buf) > LOW_WATER
    /\ Len(buf) < Len(sent)

(***************************************************************************)
(* C7.  Line/frame interleaving: "#OK CONNECT\n", one valid frame,         *)
(* "#OK DISCONNECT\n" yield, in this order and with nothing left pending,  *)
(* the log line "#OK CONNECT", the valid frame, the log line               *)
(* "#OK DISCONNECT" (the statistics line that goes with a frame is left    *)
(* out of the comparison).  Stated for the runs in which the frame is      *)
(* handed to on_frame, so that the order and the pending bytes decide it.  *)
(***************************************************************************)
IsStatsLine(e) ==
    IsLogEvent(e) /\ Slice(e.text, 0, Len(StatsPrefix)) = StatsPrefix

NotStatsLine(e) == ~ IsStatsLine(e)

C7_Interleaving ==
    (/\ Idle /\ sc.pre = "connect" /\ sc.s >= 0 /\ sc.post = "disconnect"
     /\ FrameEvents = <<Delivered(TheFrame)>>) =>
        /\ buf = <<>>
        /\ SelectSeq(events, NotStatsLine)
             = <<LogEvent(OK_CONNECT), Delivered(TheFrame), LogEvent(OK_DISCONNECT)>>

(***************************************************************************)
(* C8.  crc16_ccitt is CRC-16/CCITT-FALSE: its result is the bit-serial    *)
(* reference value, a 16-bit number, and 0x29B1 for "123456789".           *)
(***************************************************************************)
C8_CrcIsCcittFalse ==
    crc_out # -1 =>
        /\ crc_out \in 0..65535
        /\ crc_out = RefCrc(crc_in)
        /\ crc_in = CheckInput => crc_out = 10673

C8_Witness ==
    /\ crc_in = CheckInput
    /\ crc_out = 10673

(***************************************************************************)
(* C9.  Line Splitter: every complete line at the head of the accumulator  *)
(* that does not hold the marker is removed and emitted as a log line,     *)
(* whatever it begins with: once a marker-free text is processed, no       *)
(* complete line is left and there is one log event per line.              *)
(***************************************************************************)
NewlineCount(b) == Cardinality({i \in 1..Len(b) : b[i] = NL})

C9_EveryLineForwarded ==
    (Idle /\ sc.pre \in TextPrefixes /\ sc.s < 0) =>
        /\ FindNL(buf) < 0
        /\ Len(SelectSeq(events, IsLogEvent)) = NewlineCount(sent)

(***************************************************************************)
(* C10.  Single writer: over every sequence of connect() and close()       *)
(* calls, at most one reader thread is inside the read/decode loop.        *)
(***************************************************************************)
C10_SingleReader ==
    Cardinality({t \in Threads : pc[t] \in {"read", "decode", "except"}}) <= 1

(***************************************************************************)
(* C11.  Cancellation: once close() has set the stop signal while reader   *)
(* thread t is in its loop, t eventually terminates, under fair scheduling *)
(* of the threads and whatever connect() and close() calls follow.         *)
(***************************************************************************)
C11_ClosedReaderTerminates ==
    \A t \in Threads : (stop /\ Running(t)) ~> (pc[t] = "done")

(***************************************************************************)
(* C12.  A read failure is not fatal.  The handler of a read that raised   *)
(* logs "#ERR RX", backs off 0.1 s, leaves the accumulator as it is and    *)
(* returns to the loop test; the loop test leads to another read when the  *)
(* client is not stopped and the port is open; a thread ends only at the   *)
(* loop test, and only when stop is set or the port is not open.           *)
(***************************************************************************)
C12_ReadFailureNotFatal ==
    [][\A t \in Threads :
          /\ (pc[t] = "except" /\ pc'[t] # "except") =>
                /\ pc'[t] = "loop"
                /\ events' = Append(events, LogEvent(ERR_RX))
                /\ stats_due'[t]
                /\ buf' = buf
          /\ (pc[t] = "loop" /\ pc'[t] # "loop" /\ ~ stop /\ ser = "open") =>
                pc'[t] = "read"
          /\ (pc[t] # "done" /\ pc'[t] = "done") =>
                /\ pc[t] = "loop"
                /\ stop \/ ser # "open"]_vars

C12_Witness ==
    /\ pc[1] = "read"
    /\ ~ stop /\ ser = "open"
    /\ events = <<LogEvent(ERR_RX)>>
    /\ buf = <<>> /\ wire = sent

(***************************************************************************)
(* C13.  No permanent desynchronization: after a prefix of corrupted       *)
(* bytes, a run of back-to-back valid frames brings the decoder back in    *)
(* step: once the run is processed, a frame was decoded with validity      *)
(* true, and the last frame decoded is the last frame sent.                *)
(***************************************************************************)
FrameRun == sc.s >= 0 /\ sc.post = "frames"

LastFrameSent == [seq |-> 7, ok |-> TRUE, counts |-> Payloads[5]]

C13_BackInStep ==
    (Idle /\ FrameRun) =>
        /\ \E k \in 1..Len(frames) : frames[k].ok
        /\ frames[Len(frames)] = LastFrameSent

(***************************************************************************)
(* The cases of a pass of the frame loop, on the accumulator at its start. *)
(***************************************************************************)
\* the index i of the first marker in the accumulator, -1 when there is none
FirstMarker == FindSOF(buf)

\* a pass of the frame loop is about to run and finds a marker
MarkerFound == pc[1] = "frames" /\ FirstMarker >= 0

\* all 137 bytes of a frame are present from index i on
FramePresent == Len(buf) - FirstMarker >= FIX_FRAME

\* the length field after the marker at index i
LengthField == LE16(buf[FirstMarker + 5], buf[FirstMarker + 6])

(***************************************************************************)
(* C14.  False marker recovery: a pass that finds the first marker at      *)
(* index i, with at least 137 bytes from i and a length field other than   *)
(* 128, emits no frame and no log event, leaves exactly the old            *)
(* accumulator from index i + 1 on, and the search is retried (the frame   *)
(* loop goes on).                                                          *)
(***************************************************************************)
C14_FalseMarkerStep ==
    [][(MarkerFound /\ FramePresent /\ LengthField # FIX_PAY) =>
          /\ buf' = From(buf, FirstMarker + 1)
          /\ events' = events
          /\ frames' = frames
          /\ pc'[1] = "frames"]_vars

\* the marker followed by 0x80 and a frame: the pass has dropped one byte
C14_Witness ==
    /\ sc.pre = "sof80" /\ sc.s >= 0
    /\ chunks = <<Len(sent)>>
    /\ pc[1] = "frames"
    /\ buf = From(sent, 1)
    /\ events = <<>> /\ frames = <<>>

(***************************************************************************)
(* C15.  Incomplete frame: a pass that finds the first marker at index i   *)
(* with fewer than 137 bytes from i on emits no event, leaves exactly the  *)
(* bytes from index i on (they start with the marker and are fewer than    *)
(* 137) and ends the frame loop; it does so whatever the length field is,  *)
(* or when fewer than 6 bytes are there.                                   *)
(***************************************************************************)
C15_IncompleteStep ==
    [][(MarkerFound /\ ~ FramePresent) =>
          /\ buf' = From(buf, FirstMarker)
          /\ FindSOF(buf') = 0
          /\ Len(buf') < FIX_FRAME
          /\ events' = events
          /\ frames' = frames
          /\ pc'[1] = "loop"]_vars

\* two bytes, then 98 bytes of a frame: the pass has dropped the two bytes
C15_Witness ==
    /\ sc.pre = "mid"
    /\ chunks = <<100>>
    /\ pc[1] = "loop"
    /\ buf = Slice(sent, 2, 100)
    /\ events = <<>> /\ frames = <<>>

(***************************************************************************)
(* C16.  Unconditional consumption: a pass that finds the first marker at  *)
(* index i with all 137 bytes present and the length 128 removes exactly   *)
(* the first i + 137 bytes and leaves the rest untouched, whether or not   *)
(* the checksum matches and whether or not the frame is handed to          *)
(* on_frame; the frame's validity is crc16_ccitt([seq, 0x80, 0x00] +       *)
(* payload) = the checksum received, little-endian.                        *)
(***************************************************************************)
C16_ConsumeStep ==
    [][(MarkerFound /\ FramePresent /\ LengthField = FIX_PAY) =>
          LET i == FirstMarker
              seq == buf[i + 7]
              payload == SubSeq(buf, i + 8, i + 135)
              crc_rx == buf[i + 136] + (256 * buf[i + 137])
              ok == crc16_ccitt(<<seq, 128, 0>> \o payload, CRC_INIT) = crc_rx
          IN  /\ buf' = From(buf, i + FIX_FRAME)
              /\ Len(frames') = Len(frames) + 1
              /\ frames'[Len(frames')].ok = ok
              /\ pc'[1] = "frames"]_vars

\* a frame with a wrong checksum, then a valid one: the first is consumed
\* and tagged invalid, not handed over, and the second is untouched
C16_Witness ==
    /\ sc.pre = "badcrc" /\ sc.s >= 0
    /\ chunks = <<Len(sent)>>
    /\ pc[1] = "frames"
    /\ buf = From(sent, FIX_FRAME)
    /\ Len(frames) = 1 /\ ~ frames[1].ok /\ frames[1].seq = 7
    /\ events = <<>>

(***************************************************************************)
(* C17.  Buffer Guard policy: a pass that finds no marker leaves exactly   *)
(* the last 1024 bytes when the accumulator is longer than 4096 bytes and  *)
(* leaves it unchanged otherwise, and emits no event; a pass that finds a  *)
(* marker never truncates: it removes bytes from the front only, and none  *)
(* beyond the frame that starts at the marker.                             *)
(***************************************************************************)
C17_GuardStep ==
    [][/\ (pc[1] = "frames" /\ FirstMarker < 0) =>
            /\ buf' = (IF Len(buf) > HIGH_WATER THEN Last(buf, LOW_WATER) ELSE buf)
            /\ events' = events
            /\ frames' = frames
            /\ pc'[1] = "loop"
       /\ MarkerFound =>
            /\ Len(buf) - Len(buf') <= FirstMarker + FIX_FRAME
            /\ buf' = From(buf, Len(buf) - Len(buf'))]_vars

\* 5120 marker-free bytes, no two alike in their position in the pattern:
\* the last 1024 are left and nothing is emitted
C17_Witness ==
    /\ sc.pre = "noise2"
    /\ chunks = <<HIGH_WATER + READ_SIZE>>
    /\ pc[1] = "loop"
    /\ buf = SubSeq(sent, HIGH_WATER + 1, HIGH_WATER + READ_SIZE)
    /\ buf # SubSeq(sent, 1, LOW_WATER)
    /\ events = <<>>
    /\ frames = <<>>

(***************************************************************************)
(* C20.  Per-chunk termination: every pass of the line loop and of the     *)
(* frame loop either leaves its loop (the line loop for the frame loop,    *)
(* the frame loop for the end of the iteration) or strictly shortens the   *)
(* accumulator, so neither loop can run for more passes than the           *)
(* accumulator has bytes, also when markers recur in the data.             *)
(***************************************************************************)
C20_LoopsTerminate ==
    [][/\ pc[1] = "lines" =>
            \/ pc'[1] = "frames"
            \/ pc'[1] = "lines" /\ Len(buf') < Len(buf)
       /\ pc[1] = "frames" =>
            \/ pc'[1] = "loop"
            \/ pc'[1] = "frames" /\ Len(buf') < Len(buf)]_vars

\* the marker fifty times over, then a frame: fifty resyncs, then the frame
C20_Witness ==
    /\ sc.pre = "sofs"
    /\ chunks = <<Len(sent)>>
    /\ pc[1] = "loop"
    /\ buf = <<>>
    /\ Len(frames) = 1 /\ frames[1].ok /\ frames[1].seq = sc.s

(***************************************************************************)
(* C18.  Event ordering, one reader: the log lines and frames handed over  *)
(* come in the order of their bytes in the stream.  The frames handed over *)
(* are the decoded frames in decoding order, none twice; and on a stream   *)
(* of log lines and frames, the events other than the statistics lines are *)
(* the items of the stream in stream order, each at most once.             *)
(***************************************************************************)
\* a is b with some elements left out
RECURSIVE IsSubseq(_, _)
IsSubseq(a, b) ==
    IF a = <<>> THEN TRUE
    ELSE IF b = <<>> THEN FALSE
    ELSE IF Head(a) = Head(b) THEN IsSubseq(Tail(a), Tail(b))
    ELSE IsSubseq(a, Tail(b))

\* the log lines the byte string b holds, in order
RECURSIVE LogLinesOf(_)
LogLinesOf(b) ==
    LET k == FindNL(b) IN
    IF k < 0 THEN <<>>
    ELSE LET s == DecodeIgnore(Strip(Slice(b, 0, k)))
         IN  (IF StartsWith(s, HASH) \/ StartsWith(s, GT) THEN <<LogEvent(s)>> ELSE <<>>)
                \o LogLinesOf(From(b, k + 1))

\* the stream is text, then a frame or none, then text or frames
PlainScenario == sc.pre \in {"none", "connect"} \cup TextPrefixes

\* the log lines and frames of a plain stream, in stream order
StreamItems ==
    LogLinesOf(PrefixOf(sc.pre))
    \o (IF sc.s >= 0 THEN <<Delivered(TheFrame)>> ELSE <<>>)
    \o (IF sc.post = "frames"
        THEN <<FrameEvent(6, TRUE, Payloads[5]), Delivered(LastFrameSent)>>
        ELSE LogLinesOf(SuffixOf(sc.post)))

C18_InStreamOrder ==
    /\ IsSubseq(FrameEvents, [k \in 1..Len(frames) |-> Delivered(frames[k])])
    /\ PlainScenario => IsSubseq(SelectSeq(events, NotStatsLine), StreamItems)

\* a log line, a frame and a log line, handed over in that order
C18_Witness ==
    /\ sc.pre = "connect" /\ sc.post = "disconnect"
    /\ SelectSeq(events, NotStatsLine)
         = <<LogEvent(OK_CONNECT), Delivered(TheFrame), LogEvent(OK_DISCONNECT)>>

(***************************************************************************)
(* C19.  Bounded accumulator, one reader: once a chunk is processed the    *)
(* accumulator holds at most 4096 bytes, and fewer than 137 when it holds  *)
(* a marker; with the bytes of the next read appended it holds at most     *)
(* 5120.                                                                   *)
(***************************************************************************)
C19_BoundedAccumulator ==
    /\ Len(buf) <= HIGH_WATER
    /\ FindSOF(buf) >= 0 => Len(buf) < FIX_FRAME
    /\ Len(buf) + Len(data[1]) <= HIGH_WATER + READ_SIZE

\* 4096 marker-free bytes are kept and a full read is about to be appended
C19_Witness ==
    /\ sc.pre \in NoisePrefixes
    /\ pc[1] = "decode"
    /\ Len(buf) = HIGH_WATER
    /\ Len(data[1]) = READ_SIZE
    /\ FindSOF(buf \o data[1]) < 0

(***************************************************************************)
(* C21.  The buffer guard does not break a frame that follows noise: on    *)
(* marker-free noise (4090, 4096 and 8192 bytes, so that the guard         *)
(* truncates never, once and twice) followed by one valid frame, under     *)
(* every chunking, as long as no frame is decoded every byte of the frame  *)
(* that has arrived is still in the accumulator (a truncation keeps a      *)
(* trailing part of the marker), and the frame is decoded, once, with      *)
(* validity true.                                                          *)
(***************************************************************************)
NoiseThenFrame ==
    sc.pre \in FloodPrefixes \cup {"noisy"} /\ sc.s >= 0 /\ sc.post = "none"

C21_GuardKeepsFrame ==
    NoiseThenFrame =>
        /\ frames = <<>> =>
              /\ Len(Pending) >= FIX_FRAME
              /\ From(Pending, Len(Pending) - FIX_FRAME) = FrameAsSent
        /\ frames # <<>> => frames = <<TheFrame>>
        /\ Idle => frames # <<>>

\* the guard has truncated an accumulator that ended with the first two
\* bytes of the marker, and the frame is decoded
C21_Witness ==
    /\ sc.pre = "flood1"
    /\ Idle
    /\ chunks = <<2, READ_SIZE, READ_SIZE, READ_SIZE, READ_SIZE, FIX_FRAME - 2>>
    /\ frames = <<TheFrame>>
    /\ buf = <<>>

(***************************************************************************)
(* SpecScan: read_scan of msp430_heatmap.py (lines 82-92), called by the   *)
(* timer of main once and again, on a device that answers each cycle with  *)
(* a 22-byte or a 10-byte packet.                                          *)
(***************************************************************************)
CYCLES == 16
CELLS == 64
LONG_PACKET == 22
SHORT_PACKET == 10

\* an index that steps by one per element
ElemIndexDense(c, k) == (8 * (c \div 2)) + k + (c % 2)

\* e = 8 * (cycle >> 1) + 2 * k + (cycle & 1) (line 90)
ElemIndex(c, k) == (8 * (c \div 2)) + (2 * k) + (c % 2)

\* parse_cycle (lines 67-79); b[j + 1] is buf[j]
parse_cycle(b) ==
    IF Len(b) = LONG_PACKET
    THEN [k \in 1..4 |-> LET base == 6 + (4 * (k - 1))
                         IN  LE16(b[base + 3], b[base + 4])]
    ELSE IF Len(b) = SHORT_PACKET THEN <<LE16(b[9], b[10])>>
    ELSE <<>>

\* for k, raw in enumerate(elems): readings[e] = raw (lines 89-91), from
\* element k on; r carries readings and the number of assignments per cell
RECURSIVE StoreElems(_, _, _, _)
StoreElems(r, c, elems, k) ==
    IF k >= Len(elems) THEN r
    ELSE LET e == ElemIndex(c, k)
         IN  StoreElems([readings |-> [r.readings EXCEPT ![e] = elems[k + 1]],
                         writes |-> [r.writes EXCEPT ![e] = @ + 1]],
                        c, elems, k + 1)

\* the n bytes the device answers for cycle c
Packet(c, n) == [j \in 1..n |-> ((17 * c) + (29 * j) + 3) % 256]

\* the 10-byte packets among the packets b
ShortCount(b) == Cardinality({i \in 1..Len(b) : Len(b[i]) = SHORT_PACKET})

\* the sizes the next packet may have: few short ones, or short ones only
PacketSizes ==
    {LONG_PACKET}
    \cup (IF ShortCount(bufs) < MaxShort \/ ShortCount(bufs) = Len(bufs)
          THEN {SHORT_PACKET} ELSE {})

\* readings = [0] * 64 (line 85), at the first tick of the timer and at
\* each tick after a scan has returned
ReadScanBegin ==
    /\ readings = <<>> \/ cycle = CYCLES
    /\ cycle' = 0
    /\ readings' = [e \in 0..(CELLS - 1) |-> 0]
    /\ writes' = [e \in 0..(CELLS - 1) |-> 0]
    /\ bufs' = <<>>
    /\ UNCHANGED <<ser, stop, buf, pc, data, stats_due, wire, sent, chunks, events,
                   frames, calls, sc, crc_in, crc_out>>

\* one pass of for cycle in range(16) (lines 86-91)
ScanCycle(n) ==
    /\ readings # <<>>
    /\ cycle < CYCLES
    /\ n \in PacketSizes
    /\ LET b == Packet(cycle, n)
           r == StoreElems([readings |-> readings, writes |-> writes],
                           cycle, parse_cycle(b), 0)
       IN  /\ bufs' = Append(bufs, b)
           /\ readings' = r.readings
           /\ writes' = r.writes
    /\ cycle' = cycle + 1
    /\ UNCHANGED <<ser, stop, buf, pc, data, stats_due, wire, sent, chunks, events,
                   frames, calls, sc, crc_in, crc_out>>

ScanInit ==
    /\ NoScan
    /\ sc = NoScenario
    /\ sent = <<>>
    /\ wire = <<>>
    /\ ser = "None"
    /\ stop = FALSE
    /\ buf = <<>>
    /\ pc = [t \in Threads |-> "none"]
    /\ data = [t \in Threads |-> <<>>]
    /\ stats_due = [t \in Threads |-> FALSE]
    /\ chunks = <<>>
    /\ events = <<>>
    /\ frames = <<>>
    /\ calls = 0
    /\ crc_in = <<>>
    /\ crc_out = -1

ScanNext ==
    \/ ReadScanBegin
    \/ \E n \in {LONG_PACKET, SHORT_PACKET} : ScanCycle(n)

SpecScan == ScanInit /\ [][ScanNext]_vars

(***************************************************************************)
(* C22.  I2C scan mapping: E = 8*(c>>1) + 2*k + (c&1) maps the pairs       *)
(* (c in 0..15, k in 0..3) one-to-one onto 0..63; once read_scan has read  *)
(* its 16 cycles, each cell of a cycle that returned 22 bytes was assigned *)
(* exactly once and holds the little-endian value at bytes base+2, base+3  *)
(* (base = 6+4k) of the packet, and of a cycle that returned 10 bytes the  *)
(* k = 0 cell was assigned once, from bytes 8, 9, and the other three      *)
(* cells were never assigned and hold 0.                                   *)
(***************************************************************************)
C22_ScanMapping ==
    LET E(c, k) == (8 * (c \div 2)) + (2 * k) + (c % 2)
        Pairs == (0..15) \X (0..3)
    IN  /\ \A x \in Pairs : ElemIndex(x[1], x[2]) = E(x[1], x[2])
        /\ \A e \in 0..63 : Cardinality({x \in Pairs : E(x[1], x[2]) = e}) = 1
        /\ cycle = CYCLES =>
             \A x \in Pairs :
                LET b == bufs[x[1] + 1]
                    e == E(x[1], x[2])
                    base == 6 + (4 * x[2])
                IN  IF Len(b) = 22
                    THEN /\ writes[e] = 1
                         /\ readings[e] = b[base + 3] + (256 * b[base + 4])
                    ELSE IF x[2] = 0
                    THEN /\ writes[e] = 1
                         /\ readings[e] = b[9] + (256 * b[10])
                    ELSE /\ writes[e] = 0
                         /\ readings[e] = 0

\* a scan is done in which cycle 3 returned 10 bytes and the others 22
C22_Witness ==
    /\ cycle = CYCLES
    /\ \A c \in 0..15 : Len(bufs[c + 1]) = (IF c = 3 THEN 10 ELSE 22)
    /\ readings[ElemIndex(3, 0)] = LE16(bufs[4][9], bufs[4][10])
    /\ readings[ElemIndex(3, 1)] = 0
    /\ readings[ElemIndex(15, 3)] = LE16(bufs[16][21], bufs[16][22])
    /\ readings[ElemIndex(15, 3)] > 255

=============================================================================
